---- MODULE Spec2Model ----
(***************************************************************************)
(* Model of src/flame/app.py: a FastAPI service over two SQLAlchemy        *)
(* tables, usuarios and enderecos.  Every request runs in its own session  *)
(* (get_db): the handler's first query is one step, and db.commit() with   *)
(* the db.refresh() that follows it is a second step, so that requests of  *)
(* different sessions interleave between the check and the write.          *)
(* The store enforces what the table definitions declare: the primary      *)
(* keys (auto-increment), the unique index on usuarios.email and the       *)
(* foreign key enderecos.usuario_id with ON DELETE CASCADE.  A violated    *)
(* constraint raises inside db.commit(); no handler catches it, so the     *)
(* framework answers 500.                                                  *)
(***************************************************************************)
EXTENDS Integers, FiniteSets, Sequences, TLC

\* ------------------------------------------------------------- bounds
NumProcs == 2
MaxUsuarioId == 2
MaxEnderecoId == 2
MaxDonos == 1
MaxMoradas == 1
MaxListados == 3
MaxSkip == 2
MaxLimit == 2

\* ---------------------------------------------------------- constants
SkipDefault == 0
LimitDefault == 10

HTTP_OK == 200
HTTP_CREATED == 201
HTTP_NO_CONTENT == 204
HTTP_BAD_REQUEST == 400
HTTP_NOT_FOUND == 404
HTTP_SERVER_ERROR == 500

Procs == 1..NumProcs
Nil == "Nil"
None == "None"

\* Request bodies that pass validation (UsuarioCreate, EnderecoBase).
UsuarioCreate ==
    { [nome |-> "ana", email |-> "a@x"],
      [nome |-> "bia", email |-> "a@x"],
      [nome |-> "bia", email |-> "b@x"] }

MaisUsuarioCreate == UsuarioCreate \cup { [nome |-> "caio", email |-> "c@x"] }

EnderecoBase ==
    { [rua |-> "r1", cidade |-> "c1", cep |-> None],
      [rua |-> "r2", cidade |-> "c2", cep |-> "z1"] }

UsuarioIds == 1..MaxUsuarioId
EnderecoIds == 1..MaxEnderecoId

VARIABLES
    usuarios,      \* rows of table usuarios
    enderecos,     \* rows of table enderecos
    seqUsuario,    \* last value handed out by the auto-increment of usuarios.id
    seqEndereco,   \* last value handed out by the auto-increment of enderecos.id
    sess,          \* sess[p]: the request whose session p is between its query and its commit
    resposta       \* the last HTTP response sent

vars == <<usuarios, enderecos, seqUsuario, seqEndereco, sess, resposta>>
store == <<usuarios, enderecos, seqUsuario, seqEndereco>>

\* ------------------------------------------------------ table Usuario
Usuario(id, nome, email, criado_em) ==
    [id |-> id, nome |-> nome, email |-> email, criado_em |-> criado_em]

Endereco(id, rua, cidade, cep, usuario_id, criado_em) ==
    [id |-> id, rua |-> rua, cidade |-> cidade, cep |-> cep,
     usuario_id |-> usuario_id, criado_em |-> criado_em]

\* default=datetime.utcnow: the clock, counted in the INSERTs issued so far.
utcnow == seqUsuario + seqEndereco

\* Column(Integer, primary_key=True): the next auto-increment value.
ProximoIdReuso(seq, linhas) ==
    IF linhas = {} THEN 1
    ELSE (CHOOSE m \in {l.id : l \in linhas} : \A l \in linhas : l.id <= m) + 1

ProximoId(seq, linhas) == seq + 1

\* Column(String(255), unique=True): the unique index on usuarios.email.
EmailUnicoAusente(us) == TRUE

EmailUnico(us) == \A u, v \in us : u.email = v.email => u = v

\* ForeignKey("usuarios.id"): the row's usuario_id names a stored usuario.
ChaveEstrangeiraAusente(us, usuario_id) == TRUE

ChaveEstrangeira(us, usuario_id) == \E u \in us : u.id = usuario_id

\* cascade="all, delete-orphan" and ondelete="CASCADE": the enderecos that
\* remain once usuario usuario_id is deleted.
CascataAusente(es, usuario_id) == es

Cascata(es, usuario_id) == {e \in es : e.usuario_id # usuario_id}

\* ------------------------------------------------------------ queries
\* db.query(Usuario).filter(Usuario.id == usuario_id).first()
UsuarioPorId(usuario_id) == {u \in usuarios : u.id = usuario_id}

\* db.query(Usuario).filter(Usuario.email == usuario.email).first()
UsuarioPorEmail(email) == {u \in usuarios : u.email = email}

\* db.query(Usuario).filter(Usuario.email == email, Usuario.id != usuario_id).first()
EmailDeOutroSemExcluir(email, usuario_id) == {u \in usuarios : u.email = email}

EmailDeOutro(email, usuario_id) ==
    {u \in usuarios : u.email = email /\ u.id # usuario_id}

\* db.query(Endereco).filter(Endereco.id == endereco_id).first()
EnderecoPorId(endereco_id) == {e \in enderecos : e.id = endereco_id}

\* usuario.enderecos
EnderecosDeTodos(usuario_id) == enderecos

EnderecosDoUsuario(usuario_id) == {e \in enderecos : e.usuario_id = usuario_id}

\* .all() on a query without order_by, and the load of a relationship
\* without order_by: the store returns the rows in an order of its choosing.
RECURSIVE Ordens(_)
Ordens(linhas) ==
    IF linhas = {} THEN {<<>>}
    ELSE UNION { { <<l>> \o resto : resto \in Ordens(linhas \ {l}) } : l \in linhas }

\* .offset(skip).limit(limit) on a result sequence.
Pagina(linhas, skip, limit) ==
    LET fim == IF skip + limit < Len(linhas) THEN skip + limit ELSE Len(linhas)
    IN  SubSeq(linhas, skip + 1, fim)

\* ---------------------------------------------------------- responses
\* A response: the route, the status code and the JSON body as a sequence
\* (empty, one row, or the rows of a list).
Resposta(op, status, corpo) == [op |-> op, status |-> status, corpo |-> corpo]

\* A request between its query and its commit: the route, the id of the
\* path and the validated body (a sequence of at most one element).
Pedido(op, id, dados) == [op |-> op, id |-> id, dados |-> dados]

SemPedido == Pedido(Nil, 0, <<>>)

\* Requests of kind op that passed their query and have not committed yet.
Pendentes(op) == {p \in Procs : sess[p].op = op}

Abre(p, pedido) == sess' = [sess EXCEPT ![p] = pedido]
Fecha(p) == sess' = [sess EXCEPT ![p] = SemPedido]

Init ==
    /\ usuarios = {}
    /\ enderecos = {}
    /\ seqUsuario = 0
    /\ seqEndereco = 0
    /\ sess = [p \in Procs |-> SemPedido]
    /\ resposta = Resposta(Nil, 0, <<>>)

\* ------------------------------------------------- writes at db.commit()
\* db.add(Usuario(nome, email)); db.commit(); db.refresh(): the INSERT takes
\* the next id whether or not the unique index then rejects the row.
InsereUsuario(op, usuario, t) ==
    LET novo == Usuario(ProximoId(seqUsuario, usuarios), usuario.nome, usuario.email, t)
    IN  /\ seqUsuario' = novo.id
        /\ IF EmailUnico(usuarios \cup {novo})
           THEN /\ usuarios' = usuarios \cup {novo}
                /\ resposta' = Resposta(op, HTTP_CREATED, <<novo>>)
           ELSE /\ usuarios' = usuarios
                /\ resposta' = Resposta(op, HTTP_SERVER_ERROR, <<>>)
        /\ UNCHANGED <<enderecos, seqEndereco>>

\* usuario_db.nome = ...; usuario_db.email = ...: the row as the UPDATE leaves it.
UsuarioAtualizadoSoNome(u, usuario) == [u EXCEPT !.nome = usuario.nome]

UsuarioAtualizado(u, usuario) ==
    [u EXCEPT !.nome = usuario.nome, !.email = usuario.email]

\* db.commit(); db.refresh(usuario_db): the UPDATE of a row that is gone
\* matches nothing and the unique index may reject the new email; both raise.
AtualizaUsuario(op, usuario_id, usuario) ==
    /\ IF UsuarioPorId(usuario_id) = {}
       THEN /\ usuarios' = usuarios
            /\ resposta' = Resposta(op, HTTP_SERVER_ERROR, <<>>)
       ELSE LET u == CHOOSE x \in UsuarioPorId(usuario_id) : TRUE
                novo == UsuarioAtualizado(u, usuario)
                depois == (usuarios \ {u}) \cup {novo}
            IN  IF EmailUnico(depois)
                THEN /\ usuarios' = depois
                     /\ resposta' = Resposta(op, HTTP_OK, <<novo>>)
                ELSE /\ usuarios' = usuarios
                     /\ resposta' = Resposta(op, HTTP_SERVER_ERROR, <<>>)
    /\ UNCHANGED <<enderecos, seqUsuario, seqEndereco>>

\* db.delete(usuario); db.commit(): the row and, by cascade, its enderecos.
RemoveUsuario(op, usuario_id) ==
    /\ usuarios' = usuarios \ UsuarioPorId(usuario_id)
    /\ enderecos' = Cascata(enderecos, usuario_id)
    /\ resposta' = Resposta(op, HTTP_NO_CONTENT, <<>>)
    /\ UNCHANGED <<seqUsuario, seqEndereco>>

\* db.add(Endereco(...)); db.commit(); db.refresh(): the INSERT takes the next
\* id whether or not the foreign key then rejects the row.
InsereEndereco(op, usuario_id, endereco, t) ==
    LET novo == Endereco(ProximoId(seqEndereco, enderecos), endereco.rua,
                         endereco.cidade, endereco.cep, usuario_id, t)
    IN  /\ seqEndereco' = novo.id
        /\ IF ChaveEstrangeira(usuarios, usuario_id)
           THEN /\ enderecos' = enderecos \cup {novo}
                /\ resposta' = Resposta(op, HTTP_CREATED, <<novo>>)
           ELSE /\ enderecos' = enderecos
                /\ resposta' = Resposta(op, HTTP_SERVER_ERROR, <<>>)
        /\ UNCHANGED <<usuarios, seqUsuario>>

\* endereco_db.rua = ...; endereco_db.cidade = ...; endereco_db.cep = ...
EnderecoAtualizadoParcial(e, endereco) ==
    [e EXCEPT !.rua = endereco.rua, !.cidade = endereco.cidade,
              !.cep = IF endereco.cep = None THEN e.cep ELSE endereco.cep]

EnderecoAtualizado(e, endereco) ==
    [e EXCEPT !.rua = endereco.rua, !.cidade = endereco.cidade, !.cep = endereco.cep]

\* db.commit(); db.refresh(endereco_db)
AtualizaEndereco(op, endereco_id, endereco) ==
    /\ IF EnderecoPorId(endereco_id) = {}
       THEN /\ enderecos' = enderecos
            /\ resposta' = Resposta(op, HTTP_SERVER_ERROR, <<>>)
       ELSE LET e == CHOOSE x \in EnderecoPorId(endereco_id) : TRUE
                novo == EnderecoAtualizado(e, endereco)
            IN  /\ enderecos' = (enderecos \ {e}) \cup {novo}
                /\ resposta' = Resposta(op, HTTP_OK, <<novo>>)
    /\ UNCHANGED <<usuarios, seqUsuario, seqEndereco>>

\* db.delete(endereco); db.commit()
RemoveEndereco(op, endereco_id) ==
    /\ enderecos' = enderecos \ EnderecoPorId(endereco_id)
    /\ resposta' = Resposta(op, HTTP_NO_CONTENT, <<>>)
    /\ UNCHANGED <<usuarios, seqUsuario, seqEndereco>>

\* raise HTTPException(status_code=..., detail=...)
HTTPException(op, status) ==
    /\ resposta' = Resposta(op, status, <<>>)
    /\ UNCHANGED <<store, sess>>

\* ------------------------------------------------------ routes: usuarios
\* POST /usuarios
criar_usuario(usuario) ==
    IF UsuarioPorEmail(usuario.email) # {}
    THEN HTTPException("criar_usuario", HTTP_BAD_REQUEST)
    ELSE /\ InsereUsuario("criar_usuario", usuario, utcnow)
         /\ UNCHANGED sess

\* GET /usuarios
listar_usuarios(skip, limit) ==
    /\ \E linhas \in Ordens(usuarios) :
          resposta' = Resposta("listar_usuarios", HTTP_OK, Pagina(linhas, skip, limit))
    /\ UNCHANGED <<store, sess>>

\* GET /usuarios/{usuario_id}
obter_usuario(usuario_id) ==
    IF UsuarioPorId(usuario_id) = {}
    THEN HTTPException("obter_usuario", HTTP_NOT_FOUND)
    ELSE /\ \E es \in Ordens(EnderecosDoUsuario(usuario_id)) :
              resposta' = Resposta("obter_usuario", HTTP_OK,
                  <<[usuario |-> CHOOSE u \in UsuarioPorId(usuario_id) : TRUE,
                     enderecos |-> es]>>)
         /\ UNCHANGED <<store, sess>>

\* PUT /usuarios/{usuario_id}
atualizar_usuario_grava_antes(usuario_id, usuario) ==
    IF UsuarioPorId(usuario_id) = {}
    THEN HTTPException("atualizar_usuario", HTTP_NOT_FOUND)
    ELSE IF EmailDeOutro(usuario.email, usuario_id) # {}
    THEN /\ usuarios' = {IF u.id = usuario_id THEN UsuarioAtualizadoSoNome(u, usuario) ELSE u :
                            u \in usuarios}
         /\ resposta' = Resposta("atualizar_usuario", HTTP_BAD_REQUEST, <<>>)
         /\ UNCHANGED <<enderecos, seqUsuario, seqEndereco, sess>>
    ELSE /\ AtualizaUsuario("atualizar_usuario", usuario_id, usuario)
         /\ UNCHANGED sess

atualizar_usuario(usuario_id, usuario) ==
    IF UsuarioPorId(usuario_id) = {}
    THEN HTTPException("atualizar_usuario", HTTP_NOT_FOUND)
    ELSE IF EmailDeOutro(usuario.email, usuario_id) # {}
    THEN HTTPException("atualizar_usuario", HTTP_BAD_REQUEST)
    ELSE /\ AtualizaUsuario("atualizar_usuario", usuario_id, usuario)
         /\ UNCHANGED sess

\* DELETE /usuarios/{usuario_id}
deletar_usuario(usuario_id) ==
    IF UsuarioPorId(usuario_id) = {}
    THEN HTTPException("deletar_usuario", HTTP_NOT_FOUND)
    ELSE /\ RemoveUsuario("deletar_usuario", usuario_id)
         /\ UNCHANGED sess

\* ----------------------------------------------------- routes: enderecos
\* POST /usuarios/{usuario_id}/enderecos
criar_endereco(usuario_id, endereco) ==
    IF UsuarioPorId(usuario_id) = {}
    THEN HTTPException("criar_endereco", HTTP_NOT_FOUND)
    ELSE /\ InsereEndereco("criar_endereco", usuario_id, endereco, utcnow)
         /\ UNCHANGED sess

\* GET /usuarios/{usuario_id}/enderecos
obter_enderecos_usuario(usuario_id) ==
    IF UsuarioPorId(usuario_id) = {}
    THEN HTTPException("obter_enderecos_usuario", HTTP_NOT_FOUND)
    ELSE /\ \E es \in Ordens(EnderecosDoUsuario(usuario_id)) :
              resposta' = Resposta("obter_enderecos_usuario", HTTP_OK, es)
         /\ UNCHANGED <<store, sess>>

\* PUT /enderecos/{endereco_id}
atualizar_endereco(endereco_id, endereco) ==
    IF EnderecoPorId(endereco_id) = {}
    THEN HTTPException("atualizar_endereco", HTTP_NOT_FOUND)
    ELSE /\ AtualizaEndereco("atualizar_endereco", endereco_id, endereco)
         /\ UNCHANGED sess

\* DELETE /enderecos/{endereco_id}
deletar_endereco(endereco_id) ==
    IF EnderecoPorId(endereco_id) = {}
    THEN HTTPException("deletar_endereco", HTTP_NOT_FOUND)
    ELSE /\ RemoveEndereco("deletar_endereco", endereco_id)
         /\ UNCHANGED sess

\* ------------------------------------- the same routes, session by session
\* Session p runs a handler up to its last query: the HTTPException is
\* raised here, and otherwise the request waits for its db.commit().
criar_usuario_consulta(p, usuario) ==
    /\ sess[p].op = Nil
    /\ IF UsuarioPorEmail(usuario.email) # {}
       THEN HTTPException("criar_usuario", HTTP_BAD_REQUEST)
       ELSE /\ Abre(p, Pedido("criar_usuario", 0, <<usuario>>))
            /\ UNCHANGED <<store, resposta>>

criar_usuario_commit(p) ==
    /\ sess[p].op = "criar_usuario"
    /\ InsereUsuario("criar_usuario", sess[p].dados[1], utcnow)
    /\ Fecha(p)

atualizar_usuario_consulta(p, usuario_id, usuario) ==
    /\ sess[p].op = Nil
    /\ IF UsuarioPorId(usuario_id) = {}
       THEN HTTPException("atualizar_usuario", HTTP_NOT_FOUND)
       ELSE IF EmailDeOutro(usuario.email, usuario_id) # {}
       THEN HTTPException("atualizar_usuario", HTTP_BAD_REQUEST)
       ELSE /\ Abre(p, Pedido("atualizar_usuario", usuario_id, <<usuario>>))
            /\ UNCHANGED <<store, resposta>>

atualizar_usuario_commit(p) ==
    /\ sess[p].op = "atualizar_usuario"
    /\ AtualizaUsuario("atualizar_usuario", sess[p].id, sess[p].dados[1])
    /\ Fecha(p)

deletar_usuario_consulta(p, usuario_id) ==
    /\ sess[p].op = Nil
    /\ IF UsuarioPorId(usuario_id) = {}
       THEN HTTPException("deletar_usuario", HTTP_NOT_FOUND)
       ELSE /\ Abre(p, Pedido("deletar_usuario", usuario_id, <<>>))
            /\ UNCHANGED <<store, resposta>>

deletar_usuario_commit(p) ==
    /\ sess[p].op = "deletar_usuario"
    /\ RemoveUsuario("deletar_usuario", sess[p].id)
    /\ Fecha(p)

criar_endereco_consulta(p, usuario_id, endereco) ==
    /\ sess[p].op = Nil
    /\ IF UsuarioPorId(usuario_id) = {}
       THEN HTTPException("criar_endereco", HTTP_NOT_FOUND)
       ELSE /\ Abre(p, Pedido("criar_endereco", usuario_id, <<endereco>>))
            /\ UNCHANGED <<store, resposta>>

criar_endereco_commit(p) ==
    /\ sess[p].op = "criar_endereco"
    /\ InsereEndereco("criar_endereco", sess[p].id, sess[p].dados[1], utcnow)
    /\ Fecha(p)

atualizar_endereco_consulta(p, endereco_id, endereco) ==
    /\ sess[p].op = Nil
    /\ IF EnderecoPorId(endereco_id) = {}
       THEN HTTPException("atualizar_endereco", HTTP_NOT_FOUND)
       ELSE /\ Abre(p, Pedido("atualizar_endereco", endereco_id, <<endereco>>))
            /\ UNCHANGED <<store, resposta>>

atualizar_endereco_commit(p) ==
    /\ sess[p].op = "atualizar_endereco"
    /\ AtualizaEndereco("atualizar_endereco", sess[p].id, sess[p].dados[1])
    /\ Fecha(p)

deletar_endereco_consulta(p, endereco_id) ==
    /\ sess[p].op = Nil
    /\ IF EnderecoPorId(endereco_id) = {}
       THEN HTTPException("deletar_endereco", HTTP_NOT_FOUND)
       ELSE /\ Abre(p, Pedido("deletar_endereco", endereco_id, <<>>))
            /\ UNCHANGED <<store, resposta>>

deletar_endereco_commit(p) ==
    /\ sess[p].op = "deletar_endereco"
    /\ RemoveEndereco("deletar_endereco", sess[p].id)
    /\ Fecha(p)

\* ---------------------------------------------------------- the system
Skips == {SkipDefault} \cup (0..MaxSkip)
Limits == {LimitDefault} \cup (0..MaxLimit)

\* The model stops issuing POSTs once max INSERTs are issued or waiting.
CabeUsuario(max) == seqUsuario + Cardinality(Pendentes("criar_usuario")) < max
CabeEndereco(max) == seqEndereco + Cardinality(Pendentes("criar_endereco")) < max

\* One request at a time, every route (GET /usuarios without parameters).
Next ==
    \/ \E usuario \in UsuarioCreate :
          CabeUsuario(MaxUsuarioId) /\ criar_usuario(usuario)
    \/ listar_usuarios(SkipDefault, LimitDefault)
    \/ \E usuario_id \in UsuarioIds : obter_usuario(usuario_id)
    \/ \E usuario_id \in UsuarioIds, usuario \in UsuarioCreate :
          atualizar_usuario(usuario_id, usuario)
    \/ \E usuario_id \in UsuarioIds : deletar_usuario(usuario_id)
    \/ \E usuario_id \in UsuarioIds, endereco \in EnderecoBase :
          CabeEndereco(MaxEnderecoId) /\ criar_endereco(usuario_id, endereco)
    \/ \E usuario_id \in UsuarioIds : obter_enderecos_usuario(usuario_id)
    \/ \E endereco_id \in EnderecoIds, endereco \in EnderecoBase :
          atualizar_endereco(endereco_id, endereco)
    \/ \E endereco_id \in EnderecoIds : deletar_endereco(endereco_id)

Spec == Init /\ [][Next]_vars

\* One request at a time on the usuarios routes, with one more email so
\* that three usuarios are stored at once.
NextListagem ==
    \/ \E usuario \in MaisUsuarioCreate :
          CabeUsuario(MaxListados) /\ criar_usuario(usuario)
    \/ \E skip \in Skips, limit \in Limits : listar_usuarios(skip, limit)
    \/ \E usuario_id \in 1..MaxListados, usuario \in MaisUsuarioCreate :
          atualizar_usuario(usuario_id, usuario)
    \/ \E usuario_id \in 1..MaxListados : deletar_usuario(usuario_id)

SpecListagem == Init /\ [][NextListagem]_vars

\* Concurrent sessions on the routes that write table usuarios.
NextUsuarios ==
    \/ \E p \in Procs, usuario \in UsuarioCreate :
          CabeUsuario(MaxUsuarioId) /\ criar_usuario_consulta(p, usuario)
    \/ \E p \in Procs : criar_usuario_commit(p)
    \/ \E p \in Procs, usuario_id \in UsuarioIds, usuario \in UsuarioCreate :
          atualizar_usuario_consulta(p, usuario_id, usuario)
    \/ \E p \in Procs : atualizar_usuario_commit(p)
    \/ \E p \in Procs, usuario_id \in UsuarioIds : deletar_usuario_consulta(p, usuario_id)
    \/ \E p \in Procs : deletar_usuario_commit(p)

SpecUsuarios == Init /\ [][NextUsuarios]_vars

\* Concurrent sessions on the routes that write table enderecos or remove
\* the usuarios it references.
NextEnderecos ==
    \/ \E usuario \in UsuarioCreate :
          CabeUsuario(MaxDonos) /\ criar_usuario(usuario)
    \/ \E p \in Procs, usuario_id \in 1..MaxDonos : deletar_usuario_consulta(p, usuario_id)
    \/ \E p \in Procs : deletar_usuario_commit(p)
    \/ \E p \in Procs, usuario_id \in 1..MaxDonos, endereco \in EnderecoBase :
          CabeEndereco(MaxMoradas) /\ criar_endereco_consulta(p, usuario_id, endereco)
    \/ \E p \in Procs : criar_endereco_commit(p)
    \/ \E p \in Procs, endereco_id \in 1..MaxMoradas, endereco \in EnderecoBase :
          atualizar_endereco_consulta(p, endereco_id, endereco)
    \/ \E p \in Procs : atualizar_endereco_commit(p)
    \/ \E p \in Procs, endereco_id \in 1..MaxMoradas : deletar_endereco_consulta(p, endereco_id)
    \/ \E p \in Procs : deletar_endereco_commit(p)

SpecEnderecos == Init /\ [][NextEnderecos]_vars

\* ================================================================ claims
Ids(linhas) == {l.id : l \in linhas}

\* C1 (as claimed): a POST /usuarios ends 201 or, when its email is taken,
\* 400 (DuplicateEmail) under every interleaving of the requests; it never
\* ends with the unhandled fault of the store (500).
C1_CriarUsuarioSemFalha ==
    resposta.op = "criar_usuario" => resposta.status \in {HTTP_CREATED, HTTP_BAD_REQUEST}

\* C2: in every reachable state of the concurrent usuarios routes, no two
\* distinct stored usuarios have the same email.
C2_EmailUnicoEntreUsuarios ==
    \A u, v \in usuarios : u.id # v.id => u.email # v.email

\* C2 witness: two requests raced for one email and the store refused the
\* second write.
C2_CorridaRecusada ==
    /\ resposta.status = HTTP_SERVER_ERROR
    /\ resposta.op \in {"criar_usuario", "atualizar_usuario"}
    /\ usuarios # {}

\* C3: a POST /usuarios whose email no stored usuario has is let through by
\* the check and, at its INSERT, answers 201 with a stored row whose id was
\* never handed out before and is held by no stored usuario.
C3_CriarUsuarioIdNovo ==
    [][ /\ \A p \in Procs, usuario \in UsuarioCreate :
             (criar_usuario_consulta(p, usuario) /\ ~ \E u \in usuarios : u.email = usuario.email)
                => sess'[p].op = "criar_usuario"
        /\ \A p \in Procs :
             (criar_usuario_commit(p) /\ ~ \E u \in usuarios : u.email = sess[p].dados[1].email)
                => /\ resposta'.status = HTTP_CREATED
                   /\ Len(resposta'.corpo) = 1
                   /\ resposta'.corpo[1].id \notin 1..seqUsuario
                   /\ resposta'.corpo[1].id \notin Ids(usuarios)
                   /\ resposta'.corpo[1].email = sess[p].dados[1].email
                   /\ usuarios' = usuarios \cup {resposta'.corpo[1]} ]_vars

\* C3 witness: usuario 1 was created and deleted, and the next POST answered
\* 201 with id 2.
C3_CriadoAposRemocao ==
    /\ resposta.op = "criar_usuario"
    /\ resposta.status = HTTP_CREATED
    /\ resposta.corpo[1].id = 2
    /\ seqUsuario = 2
    /\ Ids(usuarios) = {2}

\* C4: DELETE /usuarios/{id} of a stored usuario answers 204 and removes that
\* usuario, every endereco whose usuario_id is id and no other endereco.  The
\* ids removed stay absent (no later request stores a handed-out id again),
\* and a request on an absent endereco id (PUT, DELETE) or under an absent
\* usuario id (GET and POST .../enderecos) answers 404, so every later lookup
\* of the removed ids answers NotFound.
C4_DeletarUsuarioCascata ==
    [][ /\ \A usuario_id \in UsuarioIds :
             (usuario_id \in Ids(usuarios) /\ deletar_usuario(usuario_id))
                => /\ resposta'.status = HTTP_NO_CONTENT
                   /\ usuarios' = {u \in usuarios : u.id # usuario_id}
                   /\ enderecos' = {e \in enderecos : e.usuario_id # usuario_id}
        /\ \A endereco_id \in 1..seqEndereco :
             endereco_id \notin Ids(enderecos) => endereco_id \notin Ids(enderecos')
        /\ \A usuario_id \in 1..seqUsuario :
             usuario_id \notin Ids(usuarios) => usuario_id \notin Ids(usuarios')
        /\ \A endereco_id \in EnderecoIds, endereco \in EnderecoBase :
             (endereco_id \notin Ids(enderecos) /\ atualizar_endereco(endereco_id, endereco))
                => resposta'.status = HTTP_NOT_FOUND
        /\ \A endereco_id \in EnderecoIds :
             (endereco_id \notin Ids(enderecos) /\ deletar_endereco(endereco_id))
                => resposta'.status = HTTP_NOT_FOUND
        /\ \A usuario_id \in UsuarioIds :
             (usuario_id \notin Ids(usuarios) /\ obter_enderecos_usuario(usuario_id))
                => resposta'.status = HTTP_NOT_FOUND
        /\ \A usuario_id \in UsuarioIds, endereco \in EnderecoBase :
             (usuario_id \notin Ids(usuarios) /\ criar_endereco(usuario_id, endereco))
                => resposta'.status = HTTP_NOT_FOUND ]_vars

\* C4 witness: the last request deleted one of the two usuarios ever created;
\* of the two enderecos ever created one is gone and the other is still
\* stored, owned by the usuario that remains.
C4_UsuarioRemovidoComEndereco ==
    /\ resposta.op = "deletar_usuario"
    /\ resposta.status = HTTP_NO_CONTENT
    /\ seqUsuario = 2
    /\ seqEndereco = 2
    /\ Cardinality(usuarios) = 1
    /\ Cardinality(enderecos) = 1
    /\ \A e \in enderecos : e.usuario_id \in Ids(usuarios)

\* C5: in every reachable state of the concurrent sessions, every stored
\* endereco has a usuario_id that is the id of a stored usuario.
C5_SemEnderecoOrfao ==
    \A e \in enderecos : \E u \in usuarios : u.id = e.usuario_id

\* C5 witness: a POST .../enderecos found its usuario, the usuario was deleted
\* by another session, and the INSERT was then refused by the store.
C5_InsertRecusadoAposRemocao ==
    /\ resposta.op = "criar_endereco"
    /\ resposta.status = HTTP_SERVER_ERROR
    /\ seqEndereco >= 1
    /\ usuarios = {}

\* C6: a request answered 404 or 400 leaves usuarios and enderecos as they
\* were, and each of the listed requests is answered that way: PUT or DELETE
\* of an absent usuario id, GET or POST of enderecos under an absent usuario
\* id, PUT or DELETE of an absent endereco id (404), POST of a usuario with
\* a stored email and PUT of a usuario with the email of another one (400).
C6_ErroNaoAlteraStore ==
    [][ /\ resposta'.status \in {HTTP_NOT_FOUND, HTTP_BAD_REQUEST}
             => (usuarios' = usuarios /\ enderecos' = enderecos)
        /\ \A usuario_id \in UsuarioIds, usuario \in UsuarioCreate :
             (usuario_id \notin Ids(usuarios) /\ atualizar_usuario(usuario_id, usuario))
                => resposta'.status = HTTP_NOT_FOUND
        /\ \A usuario_id \in UsuarioIds :
             (usuario_id \notin Ids(usuarios) /\ deletar_usuario(usuario_id))
                => resposta'.status = HTTP_NOT_FOUND
        /\ \A usuario_id \in UsuarioIds, endereco \in EnderecoBase :
             (usuario_id \notin Ids(usuarios) /\ criar_endereco(usuario_id, endereco))
                => resposta'.status = HTTP_NOT_FOUND
        /\ \A usuario_id \in UsuarioIds :
             (usuario_id \notin Ids(usuarios) /\ obter_enderecos_usuario(usuario_id))
                => resposta'.status = HTTP_NOT_FOUND
        /\ \A endereco_id \in EnderecoIds, endereco \in EnderecoBase :
             (endereco_id \notin Ids(enderecos) /\ atualizar_endereco(endereco_id, endereco))
                => resposta'.status = HTTP_NOT_FOUND
        /\ \A endereco_id \in EnderecoIds :
             (endereco_id \notin Ids(enderecos) /\ deletar_endereco(endereco_id))
                => resposta'.status = HTTP_NOT_FOUND
        /\ \A usuario \in UsuarioCreate :
             ((\E u \in usuarios : u.email = usuario.email) /\ criar_usuario(usuario))
                => resposta'.status = HTTP_BAD_REQUEST
        /\ \A usuario_id \in UsuarioIds, usuario \in UsuarioCreate :
             (/\ usuario_id \in Ids(usuarios)
              /\ \E u \in usuarios : u.email = usuario.email /\ u.id # usuario_id
              /\ atualizar_usuario(usuario_id, usuario))
                => resposta'.status = HTTP_BAD_REQUEST ]_vars

\* C6 witness: a PUT /usuarios/{id} was answered 400 while two usuarios and
\* an endereco are stored.
C6_AtualizacaoRecusada ==
    /\ resposta.op = "atualizar_usuario"
    /\ resposta.status = HTTP_BAD_REQUEST
    /\ Cardinality(usuarios) = 2
    /\ enderecos # {}

\* C7: PUT /usuarios/{id} on a stored id answers 400 exactly when another
\* stored usuario holds the new email, and then changes nothing; otherwise
\* (the usuario's own email included) it answers 200 with the row, overwrites
\* nome and email of that row and leaves its id and criado_em, every other
\* usuario and every endereco as they were.
C7_AtualizarUsuario ==
    [][ \A usuario_id \in UsuarioIds, usuario \in UsuarioCreate :
          (usuario_id \in Ids(usuarios) /\ atualizar_usuario(usuario_id, usuario))
             => LET u == CHOOSE x \in usuarios : x.id = usuario_id
                    novo == [id |-> u.id, nome |-> usuario.nome,
                             email |-> usuario.email, criado_em |-> u.criado_em]
                IN  IF \E v \in usuarios : v.email = usuario.email /\ v.id # usuario_id
                    THEN /\ resposta'.status = HTTP_BAD_REQUEST
                         /\ usuarios' = usuarios
                         /\ enderecos' = enderecos
                    ELSE /\ resposta'.status = HTTP_OK
                         /\ resposta'.corpo = <<novo>>
                         /\ usuarios' = {v \in usuarios : v.id # usuario_id} \cup {novo}
                         /\ enderecos' = enderecos ]_vars

\* C7 witness: a PUT answered 200 with the row it wrote while another usuario
\* and an endereco are stored.
C7_AtualizadoEntreOutros ==
    /\ resposta.op = "atualizar_usuario"
    /\ resposta.status = HTTP_OK
    /\ resposta.corpo[1] \in usuarios
    /\ Cardinality(usuarios) = 2
    /\ enderecos # {}

\* C8: PUT /enderecos/{id} on a stored id answers 200 and overwrites rua,
\* cidade and cep with the body's values, a body without cep leaving cep
\* None; id, usuario_id and criado_em of the row, every other endereco and
\* every usuario stay as they were.
C8_AtualizarEndereco ==
    [][ \A endereco_id \in EnderecoIds, endereco \in EnderecoBase :
          (endereco_id \in Ids(enderecos) /\ atualizar_endereco(endereco_id, endereco))
             => LET e == CHOOSE x \in enderecos : x.id = endereco_id
                    novo == [id |-> e.id, rua |-> endereco.rua, cidade |-> endereco.cidade,
                             cep |-> endereco.cep, usuario_id |-> e.usuario_id,
                             criado_em |-> e.criado_em]
                IN  /\ resposta'.status = HTTP_OK
                    /\ enderecos' = {x \in enderecos : x.id # endereco_id} \cup {novo}
                    /\ usuarios' = usuarios
                    /\ endereco.cep = None
                          => \A x \in enderecos' : x.id = endereco_id => x.cep = None ]_vars

\* C8 witness: a PUT without cep answered 200, the row is stored with cep
\* None and another endereco is stored beside it.
C8_CepLimpo ==
    /\ resposta.op = "atualizar_endereco"
    /\ resposta.status = HTTP_OK
    /\ resposta.corpo[1].cep = None
    /\ resposta.corpo[1] \in enderecos
    /\ Cardinality(enderecos) = 2

\* The stored usuarios from the oldest INSERT to the newest.
RECURSIVE PorInsercao(_)
PorInsercao(linhas) ==
    IF linhas = {} THEN <<>>
    ELSE LET l == CHOOSE x \in linhas : \A y \in linhas : x.criado_em >= y.criado_em
         IN  Append(PorInsercao(linhas \ {l}), l)

\* Elements skip+1 .. skip+limit of a sequence, as far as it reaches.
Fatia(linhas, skip, limit) ==
    LET resto == IF Len(linhas) > skip THEN Len(linhas) - skip ELSE 0
        n == IF limit < resto THEN limit ELSE resto
    IN  [i \in 1..n |-> linhas[skip + i]]

\* C9 (as claimed): GET /usuarios?skip&limit answers 200 with elements
\* [skip, skip+limit) of the stored usuarios in insertion order, for every
\* skip >= 0 and limit >= 0 and for the defaults skip = 0 and limit = 10.
C9_ListarUsuarios ==
    [][ \A skip \in Skips, limit \in Limits :
          listar_usuarios(skip, limit)
             => /\ resposta'.status = HTTP_OK
                /\ resposta'.corpo = Fatia(PorInsercao(usuarios), skip, limit) ]_vars

\* C10: GET /usuarios/{id} and GET /usuarios/{id}/enderecos answer 404 when
\* no usuario has the id, and otherwise 200 with a list of enderecos, free
\* of repetitions, whose ids are exactly the ids of the stored enderecos
\* with that usuario_id.
C10_EnderecosDoUsuario ==
    [][ /\ \A usuario_id \in UsuarioIds :
             obter_usuario(usuario_id)
                => IF usuario_id \in Ids(usuarios)
                   THEN LET es == resposta'.corpo[1].enderecos
                        IN  /\ resposta'.status = HTTP_OK
                            /\ resposta'.corpo[1].usuario.id = usuario_id
                            /\ {es[i].id : i \in 1..Len(es)}
                                  = {e.id : e \in {x \in enderecos : x.usuario_id = usuario_id}}
                            /\ Len(es) = Cardinality({x \in enderecos : x.usuario_id = usuario_id})
                   ELSE resposta'.status = HTTP_NOT_FOUND
        /\ \A usuario_id \in UsuarioIds :
             obter_enderecos_usuario(usuario_id)
                => IF usuario_id \in Ids(usuarios)
                   THEN LET es == resposta'.corpo
                        IN  /\ resposta'.status = HTTP_OK
                            /\ {es[i].id : i \in 1..Len(es)}
                                  = {e.id : e \in {x \in enderecos : x.usuario_id = usuario_id}}
                            /\ Len(es) = Cardinality({x \in enderecos : x.usuario_id = usuario_id})
                   ELSE resposta'.status = HTTP_NOT_FOUND ]_vars

\* C10 witness: GET /usuarios/{id} answered with the one endereco of its
\* usuario while an endereco of another usuario is stored.
C10_UmDeDoisEnderecos ==
    /\ resposta.op = "obter_usuario"
    /\ resposta.status = HTTP_OK
    /\ Len(resposta.corpo[1].enderecos) = 1
    /\ Cardinality(enderecos) = 2
    /\ resposta.corpo[1].usuario \in usuarios

====
